---------------------------- MODULE Spec2Model ----------------------------
(***************************************************************************)
(* A model of lunatic's distributed-process layer:                         *)
(*   - the Process Supervisor            (src/src/process.rs)              *)
(*   - the Node Server                   (lunatic-distributed server.rs)   *)
(*   - the host operations spawn, send, send_receive_skip_search and       *)
(*     get_nodes                         (lunatic-distributed-api lib.rs)  *)
(* Each subsystem has its own specification over the common variables.     *)
(***************************************************************************)
EXTENDS Integers, Sequences, FiniteSets, TLC

VARIABLES
    \* ---- Process Supervisor (process.rs) ----
    result,           \* the loop's `result`: "Running" until the loop breaks
    disable_signals,  \* the local `disable_signals`
    signal_mailbox,   \* the signals buffered in the capacity-1 channel
    handle_alive,     \* the ProcessHandle (the only Sender) is not dropped
    rx_alive,         \* the task still owns the Receiver (`signal_mailbox`)
    send_pc,          \* per caller of send_signal: "idle", "blocked", "ok", "err"
    fut_left,         \* polls of `fut` that still return Pending
    fut_out,          \* what `fut` resolves to: "ok", "err", or "never"
    fut_polls,        \* how often `fut` was polled
    none_seen,        \* how often recv() returned None
    last_recv,        \* what the signal branch returned at the last poll
    logged,           \* debug!("Process failed ...") was called
    task_out,         \* how the supervising task ended, "-" while it runs
    \* ---- send, send_receive_skip_search (lunatic-distributed-api lib.rs) ----
    scratch,          \* the Scratch Slot: <<>> or <<message>>
    mailbox,          \* the calling process's mailbox, in arrival order
    srs_pc,           \* the call in progress: "idle", "sending", "waiting",
                      \* "done", "trapped"
    srs_message,      \* the local `message` taken from the slot
    srs_timeout,      \* the argument `timeout`
    srs_ret,          \* the status returned: <<>> (none yet), <<0>>, <<9027>>
    srs_trap,         \* the reason of the trap, "" when none
    srs_calls,        \* calls made so far
    send_attempts,    \* calls of distributed_client.message_process so far
    last_sent,        \* the arguments of the last message_process call
    distributed,      \* the process runs under a distributed context
    \* ---- Node Server (server.rs) and the host operation spawn (lib.rs) ----
    next_msg_id,      \* the requester's next correlation id
    wire,             \* requests written to the connection, not yet read
    tasks,            \* per correlation id: the handle_message task
    modules,          \* ctx.modules: the ids of the cached modules
    envs,             \* ctx.envs: the ids of the environments that exist
    procs,            \* per environment: the ids of its live processes
    next_pid,         \* per environment: the next process id
    mail,             \* per <<environment, process>>: the Data messages sent
    responses,        \* the responses written to the connection, in order
    calls,            \* per correlation id: the caller's spawn call
    get_count,        \* per module id: calls of control.get_module
    compile_count,    \* per module id: calls of modules.compile
    \* ---- spawn's local part and get_nodes (lunatic-distributed-api lib.rs) ----
    hs_pc,            \* the spawn call: "idle", "issued", "returned", "trapped"
    hs_in,            \* the spawn call's inputs
    hs_trap,          \* the reason spawn failed with, "" when none
    hs_params,        \* the local `params`: <<>> or <<the decoded values>>
    gn_pc,            \* the get_nodes call: "idle", "done", "trapped"
    gn_in,            \* the get_nodes call's inputs
    gn_mem,           \* the sandbox memory, a sequence of bytes
    gn_ret,           \* what get_nodes returned: <<>> or <<count>>
    \* ---- send (lunatic-distributed-api lib.rs) ----
    send_args         \* the arguments <<node_id, process_id>> of the last send

supVars == <<result, disable_signals, signal_mailbox, handle_alive, rx_alive,
             send_pc, fut_left, fut_out, fut_polls, none_seen, last_recv, logged,
             task_out>>

srsVars == <<scratch, mailbox, srs_pc, srs_message, srs_timeout, srs_ret,
             srs_trap, srs_calls, send_attempts, last_sent, distributed>>

nodeVars == <<next_msg_id, wire, tasks, modules, envs, procs, next_pid, mail,
              responses, calls, get_count, compile_count>>

hostVars == <<hs_pc, hs_in, hs_trap, hs_params>>

gnVars == <<gn_pc, gn_in, gn_mem, gn_ret>>

sendVars == <<send_args>>

vars == <<supVars, srsVars, nodeVars, hostVars, gnVars, sendVars>>

-----------------------------------------------------------------------------
(* Bounds *)
MaxFutSteps == 2
NumCallers == 2
LoopFuel == 3
MaxMailbox == 2
MaxCalls == 2
MaxRequests == 2

(* Program constants *)
SignalCapacity == 1
NoMessageStatus == 9027
SuccessStatus == 0
CallerEnv == 1

Callers == 1..NumCallers

-----------------------------------------------------------------------------
(***************************************************************************)
(* Process Supervisor                                                      *)
(***************************************************************************)

\* tokio mpsc Receiver::recv polled once: a buffered value first, then None
\* when every sender is gone, else Pending.
RecvPoll(chan, senders) ==
    IF chan # <<>> THEN Head(chan)
    ELSE IF ~senders THEN "None"
    ELSE "Pending"

\* `fut` polled once.
FutPoll(left, out) ==
    IF left = 0 /\ out # "never" THEN out ELSE "Pending"

\* the branch precondition `if !disable_signals`
SignalBranchAlways(dis) == TRUE
SignalBranchNever(dis) == FALSE
SignalBranchEnabled(dis) == ~dis

\* `biased;`: the branches are polled in the order they are written
Unbiased == FALSE
Biased == TRUE

Sat(n, cap) == IF n < cap THEN n + 1 ELSE cap

\* the second branch: `output = &mut fut => break Finished::Wasm(output)`
FutBranch(s) ==
    LET o == FutPoll(s.left, s.out) IN
    [s EXCEPT !.polls = Sat(@, MaxFutSteps + 2),
              !.left = IF @ > 0 THEN @ - 1 ELSE 0,
              !.res = IF o = "ok" THEN "WasmOk"
                      ELSE IF o = "err" THEN "WasmErr" ELSE @,
              !.cont = FALSE]

\* the first branch's handler: Some(Kill) breaks, None disables the branch
SignalBranch(s, r) ==
    IF r = "Kill"
    THEN [s EXCEPT !.res = "Signal", !.chan = Tail(@), !.cont = FALSE]
    ELSE [s EXCEPT !.dis = TRUE, !.none = Sat(@, 2), !.cont = TRUE]

\* one evaluation of tokio::select!
SelectStep(s) ==
    LET r == IF SignalBranchEnabled(s.dis)
             THEN RecvPoll(s.chan, s.senders) ELSE "Disabled"
        s1 == [s EXCEPT !.last = IF r = "Kill" /\ ~s.senders THEN "KillClosed" ELSE r]
    IN  IF Biased
        THEN IF r \in {"Kill", "None"} THEN SignalBranch(s1, r) ELSE FutBranch(s1)
        ELSE IF FutPoll(s.left, s.out) # "Pending" THEN FutBranch(s1)
             ELSE IF r \in {"Kill", "None"}
                  THEN SignalBranch(FutBranch(s1), r)
                  ELSE FutBranch(s1)

\* the `loop` within one poll of the task: it runs until a branch breaks or
\* the select! suspends
RECURSIVE RunLoop(_, _)
RunLoop(s, fuel) ==
    IF fuel = 0 THEN s
    ELSE LET t == SelectStep(s) IN
         IF t.cont THEN RunLoop(t, fuel - 1) ELSE t

\* the executor polls the supervising task
SupervisorPoll ==
    /\ result = "Running"
    /\ LET s == RunLoop([res |-> result, dis |-> disable_signals,
                         chan |-> signal_mailbox, senders |-> handle_alive,
                         left |-> fut_left, out |-> fut_out,
                         polls |-> fut_polls, none |-> none_seen,
                         last |-> last_recv, cont |-> FALSE], LoopFuel)
       IN  /\ result' = s.res
           /\ disable_signals' = s.dis
           /\ signal_mailbox' = s.chan
           /\ fut_left' = s.left
           /\ fut_polls' = s.polls
           /\ none_seen' = s.none
           /\ last_recv' = s.last
    /\ UNCHANGED <<handle_alive, rx_alive, send_pc, fut_out, logged,
                   task_out>>

\* `match result { Finished::Wasm(Err(err)) => debug!(...), _ => () }`: the
\* async block ends with () after either arm
Reraised(res) == IF res = "WasmErr" THEN "failed" ELSE "returned"
AfterLoop(res) == "returned"

\* after the loop: the trap is logged, the task ends and drops the Receiver
TaskEnd ==
    /\ result # "Running"
    /\ rx_alive
    /\ rx_alive' = FALSE
    /\ logged' = (result = "WasmErr")
    /\ signal_mailbox' = <<>>
    /\ task_out' = AfterLoop(result)
    /\ UNCHANGED <<result, disable_signals, handle_alive, send_pc, fut_left,
                   fut_out, fut_polls, none_seen, last_recv>>

\* Sender::send: an error once the Receiver is gone, else enqueue when the
\* channel has room, else wait
TrySend(c) ==
    IF ~rx_alive
    THEN /\ send_pc' = [send_pc EXCEPT ![c] = "err"]
         /\ UNCHANGED signal_mailbox
    ELSE IF Len(signal_mailbox) < SignalCapacity
    THEN /\ send_pc' = [send_pc EXCEPT ![c] = "ok"]
         /\ signal_mailbox' = Append(signal_mailbox, "Kill")
    ELSE /\ send_pc' = [send_pc EXCEPT ![c] = "blocked"]
         /\ UNCHANGED signal_mailbox

\* ProcessHandle::send_signal(Signal::Kill) is called
SendSignal(c) ==
    /\ send_pc[c] = "idle"
    /\ handle_alive
    /\ TrySend(c)
    /\ UNCHANGED <<result, disable_signals, handle_alive, rx_alive, fut_left,
                   fut_out, fut_polls, none_seen, last_recv, logged,
                   task_out>>

\* a waiting send is woken: the channel has room or was closed
SendResume(c) ==
    /\ send_pc[c] = "blocked"
    /\ ~rx_alive \/ Len(signal_mailbox) < SignalCapacity
    /\ TrySend(c)
    /\ UNCHANGED <<result, disable_signals, handle_alive, rx_alive, fut_left,
                   fut_out, fut_polls, none_seen, last_recv, logged,
                   task_out>>

\* the ProcessHandle is dropped (no send_signal borrows it)
DropHandle ==
    /\ handle_alive
    /\ \A c \in Callers : send_pc[c] # "blocked"
    /\ handle_alive' = FALSE
    /\ UNCHANGED <<result, disable_signals, signal_mailbox, rx_alive, send_pc,
                   fut_left, fut_out, fut_polls, none_seen, last_recv, logged,
                   task_out>>

-----------------------------------------------------------------------------
(***************************************************************************)
(* Mailbox, Scratch Slot and send_receive_skip_search                      *)
(***************************************************************************)

\* Option<i64> is a sequence of length at most one
OptTags == {<<>>, <<1>>, <<2>>}
NodeIds == {1, 2}
ProcIds == {1, 2}
Timeouts == {0, 50}

\* Message: Data(DataMessage{tag, buffer}) or another kind that carries a tag
DataMessages == [kind : {"Data"}, tag : OptTags, data : {1, 2}]
OtherMessages == [kind : {"LinkDied"}, tag : {<<1>>}, data : {0}]
Messages == DataMessages \cup OtherMessages

NoRequest == [node |-> 0, env |-> 0, process |-> 0, tag |-> <<>>, data |-> 0]

\* `tags`: Some(&[tag]) when message.tag() is Some(tag), else None
SrsTagsNone(m) == [some |-> FALSE, set |-> {}]
SrsTags(m) ==
    IF m.tag # <<>> THEN [some |-> TRUE, set |-> {m.tag[1]}]
    ELSE [some |-> FALSE, set |-> {}]

\* Mailbox::pop_skip_search's match: any message when tags is None, else a
\* message whose tag is one of tags
Matches(m, tags) ==
    ~tags.some \/ (m.tag # <<>> /\ m.tag[1] \in tags.set)

\* the index of the message pop_skip_search returns, 0 while it waits
PopIndex(mb, tags) ==
    IF \E i \in 1..Len(mb) : Matches(mb[i], tags)
    THEN CHOOSE i \in 1..Len(mb) :
            /\ Matches(mb[i], tags)
            /\ \A j \in 1..(i - 1) : ~Matches(mb[j], tags)
    ELSE 0

RemoveAt(mb, i) == SubSeq(mb, 1, i - 1) \o SubSeq(mb, i + 1, Len(mb))

\* the timer branch's precondition `if timeout != 0`
TimerAlways(t) == TRUE
TimerEnabled(t) == t # 0

\* `.take().or_trap("lunatic::message::send::no_message")?` on an empty slot
EmptySlotIsStatus == "status"
OnEmptySlot == "trap"

\* the timeout path leaves the slot as take() left it
SlotRestored(slot, m) == m
SlotAfterTimeout(slot, m) == slot

\* the sandbox stages a message in the Scratch Slot
Stage(m) ==
    /\ srs_pc = "idle"
    /\ scratch' = <<m>>
    /\ UNCHANGED <<mailbox, srs_pc, srs_message, srs_timeout, srs_ret, srs_trap,
                   srs_calls, send_attempts, last_sent, distributed>>

\* the sandbox takes the staged or received message out of the Scratch Slot
GuestTake ==
    /\ srs_pc = "idle"
    /\ scratch # <<>>
    /\ scratch' = <<>>
    /\ UNCHANGED <<mailbox, srs_pc, srs_message, srs_timeout, srs_ret, srs_trap,
                   srs_calls, send_attempts, last_sent, distributed>>

\* another process's message is appended to the mailbox
Arrive(m) ==
    /\ Len(mailbox) < MaxMailbox
    /\ srs_pc # "trapped"
    /\ mailbox' = Append(mailbox, m)
    /\ UNCHANGED <<scratch, srs_pc, srs_message, srs_timeout, srs_ret, srs_trap,
                   srs_calls, send_attempts, last_sent, distributed>>

\* send_receive_skip_search(node_id, process_id, timeout), up to its first await
SrsCall(node, pid, t) ==
    /\ srs_pc = "idle"
    /\ srs_calls < MaxCalls
    /\ srs_calls' = srs_calls + 1
    /\ srs_timeout' = t
    /\ UNCHANGED <<mailbox, distributed>>
    /\ IF scratch = <<>>
       THEN /\ IF OnEmptySlot = "trap"
               THEN srs_pc' = "trapped" /\ srs_trap' = "no_message"
                    /\ srs_ret' = <<>>
               ELSE srs_pc' = "done" /\ srs_trap' = ""
                    /\ srs_ret' = <<NoMessageStatus>>
            /\ UNCHANGED <<scratch, srs_message, send_attempts, last_sent>>
       ELSE /\ scratch' = <<>>
            /\ srs_message' = scratch
            /\ IF scratch[1].kind = "Data"
               THEN IF distributed
                    THEN /\ srs_pc' = "sending"
                         /\ send_attempts' = send_attempts + 1
                         /\ last_sent' = [node |-> node, env |-> CallerEnv,
                                          process |-> pid, tag |-> scratch[1].tag,
                                          data |-> scratch[1].data]
                         /\ UNCHANGED <<srs_ret, srs_trap>>
                    ELSE /\ srs_pc' = "trapped"
                         /\ srs_trap' = "distributed"
                         /\ UNCHANGED <<srs_ret, send_attempts, last_sent>>
               ELSE /\ srs_pc' = "done"
                    /\ srs_ret' = <<NoMessageStatus>>
                    /\ UNCHANGED <<srs_trap, send_attempts, last_sent>>

\* message_process(...).await? returns
SrsSendDone(ok) ==
    /\ srs_pc = "sending"
    /\ IF ok
       THEN srs_pc' = "waiting" /\ UNCHANGED srs_trap
       ELSE srs_pc' = "trapped" /\ srs_trap' = "send"
    /\ UNCHANGED <<scratch, mailbox, srs_message, srs_timeout, srs_ret,
                   srs_calls, send_attempts, last_sent, distributed>>

\* the select!'s mailbox branch: pop_skip_search(tags) resolves
SrsReceive ==
    /\ srs_pc = "waiting"
    /\ LET i == PopIndex(mailbox, SrsTags(srs_message[1])) IN
       /\ i # 0
       /\ scratch' = <<mailbox[i]>>
       /\ mailbox' = RemoveAt(mailbox, i)
    /\ srs_ret' = <<SuccessStatus>>
    /\ srs_pc' = "done"
    /\ UNCHANGED <<srs_message, srs_timeout, srs_trap, srs_calls,
                   send_attempts, last_sent, distributed>>

\* the select!'s timer branch: sleep(timeout) elapses
SrsTimeout ==
    /\ srs_pc = "waiting"
    /\ TimerEnabled(srs_timeout)
    /\ scratch' = SlotAfterTimeout(scratch, srs_message)
    /\ srs_ret' = <<NoMessageStatus>>
    /\ srs_pc' = "done"
    /\ UNCHANGED <<mailbox, srs_message, srs_timeout, srs_trap, srs_calls,
                   send_attempts, last_sent, distributed>>

\* the status is returned to the sandbox, which runs on; the call's locals
\* are gone
SrsReturn ==
    /\ srs_pc = "done"
    /\ srs_pc' = "idle"
    /\ srs_ret' = <<>>
    /\ srs_message' = <<>>
    /\ srs_timeout' = 0
    /\ UNCHANGED <<scratch, mailbox, srs_trap, srs_calls,
                   send_attempts, last_sent, distributed>>

-----------------------------------------------------------------------------
(***************************************************************************)
(* Node Server and the host operation spawn                                *)
(***************************************************************************)

EnvIds == {1, 2}
ModuleIds == {1, 2}
\* the module ids whose bytes the control plane can supply
ControlModules == {1}
MsgIds == 1..MaxRequests
MsgTags == {<<>>, <<1>>}
FirstEnv == CHOOSE e \in EnvIds : \A f \in EnvIds : e <= f
Pids == 1..(MaxRequests + 1)

NoTask == [kind |-> "-", env |-> 0, module |-> 0, process |-> 0, tag |-> <<>>,
           pc |-> "none", lookup |-> "-", fetched |-> 0, compiled |-> 0,
           proc |-> 0]
NoCall == [pc |-> "none", status |-> <<>>, out |-> <<>>]

\* the value written to id_ptr and the status, `Err(_) => (0, 1)`
SpawnFailedId == 0
SpawnFailedStatus == 1
SpawnOkStatus == 0

\* `Ok(id) => (id, 0)`, `Err(_) => (0, 1)`, then the id is written to id_ptr
\* (a trap when id_ptr is outside the memory) and the status returned;
\* res is <<id>> for Ok(id) and <<>> for Err
SpawnResult(res, ptr_ok) ==
    IF ~ptr_ok
    THEN [pc |-> "trapped", status |-> <<>>, out |-> <<>>]
    ELSE IF res # <<>>
    THEN [pc |-> "done", status |-> <<SpawnOkStatus>>, out |-> res]
    ELSE [pc |-> "done", status |-> <<SpawnFailedStatus>>,
          out |-> <<SpawnFailedId>>]

\* the requester takes the next correlation id
NewMsgId ==
    /\ next_msg_id \in MsgIds
    /\ next_msg_id' = next_msg_id + 1

\* the host operation spawn, after its local checks: distributed_client.spawn
\* either fails to send (Err) or writes Request::Spawn and awaits the response
ClientSpawn(env, module, sent, ptr_ok) ==
    /\ NewMsgId
    /\ IF sent
       THEN /\ wire' = Append(wire, [msg_id |-> next_msg_id, kind |-> "Spawn",
                                     env |-> env, module |-> module,
                                     process |-> 0, tag |-> <<>>])
            /\ calls' = [calls EXCEPT ![next_msg_id] =
                            [pc |-> "waiting", status |-> <<>>, out |-> <<>>]]
       ELSE /\ calls' = [calls EXCEPT ![next_msg_id] = SpawnResult(<<>>, ptr_ok)]
            /\ UNCHANGED wire
    /\ UNCHANGED <<tasks, modules, envs, procs, next_pid, mail, responses,
                   get_count, compile_count>>

\* distributed_client.message_process writes Request::Message
ClientMessage(env, pid, tag) ==
    /\ NewMsgId
    /\ wire' = Append(wire, [msg_id |-> next_msg_id, kind |-> "Message",
                             env |-> env, module |-> 0, process |-> pid,
                             tag |-> tag])
    /\ UNCHANGED <<tasks, modules, envs, procs, next_pid, mail, responses,
                   calls, get_count, compile_count>>

\* the awaited response arrives: the id is written to id_ptr, status 0
ClientSpawnReturn(m, ptr_ok) ==
    /\ calls[m].pc = "waiting"
    /\ \E i \in 1..Len(responses) :
          /\ responses[i].msg_id = m
          /\ calls' = [calls EXCEPT ![m] = SpawnResult(<<responses[i].id>>, ptr_ok)]
    /\ UNCHANGED <<next_msg_id, wire, tasks, modules, envs, procs, next_pid,
                   mail, responses, get_count, compile_count>>

\* `tokio::task::spawn(handle_message(...))`: the loop goes on to the next
\* conn.receive() whatever the spawned tasks do
ReadAfterHandling(ts) == \A m \in MsgIds : ts[m].pc \in {"none", "done", "failed"}
ReadReady(ts) == TRUE

\* handle_connection: conn.receive() yields the next request and its handling
\* is spawned as a task
HandleConnection ==
    /\ wire # <<>>
    /\ ReadReady(tasks)
    /\ LET r == Head(wire) IN
       tasks' = [tasks EXCEPT ![r.msg_id] =
                    [NoTask EXCEPT !.kind = r.kind, !.env = r.env,
                                   !.module = r.module, !.process = r.process,
                                   !.tag = r.tag, !.pc = "start"]]
    /\ wire' = Tail(wire)
    /\ UNCHANGED <<next_msg_id, modules, envs, procs, next_pid, mail,
                   responses, calls, get_count, compile_count>>

\* Modules::get(module_id) finds the module in the node's cache
ModulesGet(cache, module) == module \in cache

\* Modules::compile caches the module it compiled under its id
ModulesCompile(cache, module) == cache \cup {module}

\* `match ctx.modules.get(module_id)`: None goes to the control plane
AlwaysFetch(cache, module) == TRUE
NeedsFetch(cache, module) == ~ModulesGet(cache, module)

\* handle_spawn from the module on: get_or_create, new_dist_state, and the
\* call of spawn_wasm
Instantiate(m, state_ok) ==
    /\ envs' = envs \cup {tasks[m].env}
    /\ tasks' = [tasks EXCEPT ![m].pc = IF state_ok THEN "spawning" ELSE "failed"]

\* handle_message on Request::Spawn, to handle_spawn's first await
HandleSpawnStart(m, cfg_ok, state_ok) ==
    /\ tasks[m].pc = "start"
    /\ tasks[m].kind = "Spawn"
    /\ IF ~cfg_ok
       THEN /\ tasks' = [tasks EXCEPT ![m].pc = "failed"]
            /\ UNCHANGED <<envs, get_count>>
       ELSE IF ~NeedsFetch(modules, tasks[m].module)
       THEN /\ envs' = envs \cup {tasks[m].env}
            /\ tasks' = [tasks EXCEPT ![m].lookup = "hit",
                            ![m].pc = IF state_ok THEN "spawning" ELSE "failed"]
            /\ UNCHANGED get_count
       ELSE /\ tasks' = [tasks EXCEPT ![m].lookup = "miss",
                                      ![m].fetched = @ + 1,
                                      ![m].pc = "fetching"]
            /\ get_count' = [get_count EXCEPT ![tasks[m].module] = @ + 1]
            /\ UNCHANGED envs
    /\ UNCHANGED <<next_msg_id, wire, modules, procs, next_pid, mail,
                   responses, calls, compile_count>>

\* control.get_module(module_id).await returns; the bytes go to compile
GetModuleDone(m) ==
    /\ tasks[m].pc = "fetching"
    /\ IF tasks[m].module \in ControlModules
       THEN /\ tasks' = [tasks EXCEPT ![m].pc = "compiling",
                                      ![m].compiled = @ + 1]
            /\ compile_count' = [compile_count EXCEPT ![tasks[m].module] = @ + 1]
       ELSE /\ tasks' = [tasks EXCEPT ![m].pc = "failed"]
            /\ UNCHANGED compile_count
    /\ UNCHANGED <<next_msg_id, wire, modules, envs, procs, next_pid, mail,
                   responses, calls, get_count>>

\* modules.compile(...).await?? returns: the compiled module is cached
CompileDone(m, ok, state_ok) ==
    /\ tasks[m].pc = "compiling"
    /\ IF ok
       THEN /\ modules' = ModulesCompile(modules, tasks[m].module)
            /\ Instantiate(m, state_ok)
       ELSE /\ tasks' = [tasks EXCEPT ![m].pc = "failed"]
            /\ UNCHANGED <<modules, envs>>
    /\ UNCHANGED <<next_msg_id, wire, procs, next_pid, mail, responses, calls,
                   get_count, compile_count>>

\* env.spawn_wasm(...).await? returns: the process exists under a new id
SpawnWasmDone(m, ok) ==
    /\ tasks[m].pc = "spawning"
    /\ LET e == tasks[m].env IN
       IF ok
       THEN /\ tasks' = [tasks EXCEPT ![m].pc = "responding",
                                      ![m].proc = next_pid[e]]
            /\ procs' = [procs EXCEPT ![e] = @ \cup {next_pid[e]}]
            /\ mail' = [mail EXCEPT ![<<e, next_pid[e]>>] = <<>>]
            /\ next_pid' = [next_pid EXCEPT ![e] = @ + 1]
       ELSE /\ tasks' = [tasks EXCEPT ![m].pc = "failed"]
            /\ UNCHANGED <<procs, mail, next_pid>>
    /\ UNCHANGED <<next_msg_id, wire, modules, envs, responses, calls,
                   get_count, compile_count>>

\* the correlation id of the response: the task's own msg_id
LastReadId(m) == CHOOSE k \in MsgIds : tasks[k].pc # "none" /\
                    \A j \in MsgIds : tasks[j].pc # "none" => j <= k
ResponseId(m) == m

\* `Ok(proc.id())`: the id handle_spawn returns is the spawned process's
UnusedId(t) == next_pid[t.env]
SpawnedId(t) == t.proc

\* conn.send(msg_id, Response::Spawned(id)).await? returns
SendResponse(m, ok) ==
    /\ tasks[m].pc = "responding"
    /\ IF ok
       THEN /\ responses' = Append(responses, [msg_id |-> ResponseId(m),
                                               id |-> SpawnedId(tasks[m])])
            /\ tasks' = [tasks EXCEPT ![m].pc = "done"]
       ELSE /\ tasks' = [tasks EXCEPT ![m].pc = "failed"]
            /\ UNCHANGED responses
    /\ UNCHANGED <<next_msg_id, wire, modules, envs, procs, next_pid, mail,
                   calls, get_count, compile_count>>

\* env.get_process(process_id)
AnyProcess(ps, pid) == ps # {}
GetProcess(ps, pid) == pid \in ps

\* handle_message on Request::Message: handle_process_message
HandleProcessMessage(m) ==
    /\ tasks[m].pc = "start"
    /\ tasks[m].kind = "Message"
    /\ LET e == tasks[m].env
           p == tasks[m].process
       IN /\ envs' = envs \cup {e}
          /\ IF GetProcess(procs[e], p)
             THEN mail' = [mail EXCEPT ![<<e, p>>] =
                              Append(@, [tag |-> tasks[m].tag, data |-> m])]
             ELSE UNCHANGED mail
    /\ tasks' = [tasks EXCEPT ![m].pc = "done"]
    /\ UNCHANGED <<next_msg_id, wire, modules, procs, next_pid, responses,
                   calls, get_count, compile_count>>

\* a process finishes and leaves its environment; its mailbox goes with it
ProcessExit(e, p) ==
    /\ p \in procs[e]
    /\ procs' = [procs EXCEPT ![e] = @ \ {p}]
    /\ mail' = [mail EXCEPT ![<<e, p>>] = <<>>]
    /\ UNCHANGED <<next_msg_id, wire, tasks, modules, envs, next_pid,
                   responses, calls, get_count, compile_count>>

-----------------------------------------------------------------------------
(***************************************************************************)
(* The host operation spawn up to its request                              *)
(***************************************************************************)

\* the most records in a parameter buffer
MaxRecords == 2

\* `chunks_exact(17)`: one tag byte and sixteen payload bytes
RecordSize == 17
\* the type ids of the match on chunk[0]
TypeI32 == 127
TypeI64 == 126
TypeV128 == 123

\* the bytes of a parameter buffer: records with the three type ids and with
\* another one (0x7C), an ascending and an all-ones payload, and possibly a
\* trailing partial record
TypeIds == {TypeI32, TypeI64, TypeV128, 124}
Payloads == {[i \in 1..(RecordSize - 1) |-> i], [i \in 1..(RecordSize - 1) |-> 255]}
Records == {<<t>> \o p : t \in TypeIds, p \in Payloads}
Trailing == {<<>>, [i \in 1..(RecordSize - 1) |-> i - 1]}
RECURSIVE RecordSeqs(_)
RecordSeqs(n) ==
    IF n = 0 THEN {<<>>}
    ELSE {b \o r : b \in RecordSeqs(n - 1), r \in Records}
ParamBuffers ==
    {b \o t : b \in UNION {RecordSeqs(n) : n \in 0..MaxRecords}, t \in Trailing}

\* `value as i32`, `value as i64`: the low bytes of the little-endian value
Truncate(value, width) == SubSeq(value, 1, width)

\* the closure of the map: <<value>> for Ok(value), <<>> for Err; a value is
\* its variant and its bytes, least significant first
DecodeChunkLenient(chunk) ==
    LET value == SubSeq(chunk, 2, RecordSize) IN
    CASE chunk[1] = TypeI32 -> <<[ty |-> "I32", le |-> Truncate(value, 4)]>>
      [] chunk[1] = TypeI64 -> <<[ty |-> "I64", le |-> Truncate(value, 8)]>>
      [] OTHER -> <<[ty |-> "V128", le |-> value]>>
DecodeChunk(chunk) ==
    LET value == SubSeq(chunk, 2, RecordSize) IN
    CASE chunk[1] = TypeI32 -> <<[ty |-> "I32", le |-> Truncate(value, 4)]>>
      [] chunk[1] = TypeI64 -> <<[ty |-> "I64", le |-> Truncate(value, 8)]>>
      [] chunk[1] = TypeV128 -> <<[ty |-> "V128", le |-> value]>>
      [] OTHER -> <<>>

\* chunks_exact: the whole chunks, the remainder is left out
ChunksExact(buf) ==
    [k \in 1..(Len(buf) \div RecordSize) |->
        SubSeq(buf, RecordSize * (k - 1) + 1, RecordSize * k)]

\* `.collect::<Result<Vec<_>>>()`: Err when a chunk gives Err
DecodeParams(buf) ==
    LET chunks == ChunksExact(buf)
        vals == [k \in 1..Len(chunks) |-> DecodeChunk(chunks[k])]
    IN  IF \E k \in 1..Len(chunks) : vals[k] = <<>>
        THEN [ok |-> FALSE, vals |-> <<>>]
        ELSE [ok |-> TRUE, vals |-> [k \in 1..Len(chunks) |-> vals[k][1]]]

\* the steps of spawn that can fail besides the capability check and the
\* decoding: before the decoding the params range, after it the configuration
BeforeDecode == {"params"}
AfterDecode == {"config"}
SpawnFailures == {"none"} \cup BeforeDecode \cup AfterDecode

NoInput == [can_spawn |-> FALSE, fail |-> "none", buf |-> <<>>]

\* `if !caller.data().can_spawn() { return Err(...) }`
SpawnAlwaysPermitted(can_spawn) == TRUE
SpawnPermitted(can_spawn) == can_spawn

\* spawn up to distributed_client.spawn: the first failing step ends the call
SpawnLocal(can_spawn, fail, buf) ==
    LET dec == DecodeParams(buf) IN
    IF ~SpawnPermitted(can_spawn) THEN [trap |-> "permission", params |-> <<>>]
    ELSE IF fail \in BeforeDecode THEN [trap |-> fail, params |-> <<>>]
    ELSE IF ~dec.ok THEN [trap |-> "unsupported_type", params |-> <<>>]
    ELSE IF fail \in AfterDecode THEN [trap |-> fail, params |-> <<dec.vals>>]
    ELSE [trap |-> "", params |-> <<dec.vals>>]

\* the host operation spawn called by a process of environment CallerEnv
HostSpawn(can_spawn, fail, buf, module, sent, ptr_ok) ==
    /\ hs_pc = "idle"
    /\ hs_in' = [can_spawn |-> can_spawn, fail |-> fail, buf |-> buf]
    /\ LET out == SpawnLocal(can_spawn, fail, buf) IN
       /\ hs_params' = out.params
       /\ hs_trap' = out.trap
       /\ IF out.trap # ""
          THEN hs_pc' = "trapped" /\ UNCHANGED nodeVars
          ELSE hs_pc' = "issued" /\ ClientSpawn(CallerEnv, module, sent, ptr_ok)

\* `Err(_) => (0, 1)`: the request could not be sent and spawn returns
HostSpawnReturn ==
    /\ hs_pc = "issued"
    /\ \E m \in MsgIds : m + 1 = next_msg_id /\ calls[m].pc = "done"
    /\ hs_pc' = "returned"
    /\ UNCHANGED <<hs_in, hs_trap, hs_params>>
    /\ UNCHANGED nodeVars

HostStart ==
    /\ hs_pc = "idle"
    /\ hs_in = NoInput
    /\ hs_trap = ""
    /\ hs_params = <<>>

-----------------------------------------------------------------------------
(***************************************************************************)
(* The host operations get_nodes and send                                  *)
(***************************************************************************)

\* the size of the sandbox memory in bytes and the most nodes known
MemSize == 20
MaxNodes == 2

\* size_of::<u64>()
NodeIdSize == 8

KnownIds == {1, 258, 66051}
\* what control_client.node_ids() can return: distinct ids in some order
NodeLists ==
    UNION {{s \in [1..n -> KnownIds] : \A i, j \in 1..n : s[i] = s[j] => i = j} :
              n \in 0..MaxNodes}
Capacities == 0..(MaxNodes + 1)
Pointers == 0..(MemSize + 1)

RECURSIVE LEBytes(_, _)
LEBytes(n, width) ==
    IF width = 0 THEN <<>>
    ELSE <<n % 256>> \o LEBytes(n \div 256, width - 1)

Reverse(s) == [i \in 1..Len(s) |-> s[Len(s) + 1 - i]]

\* `align_to::<u8>()`: the bytes of a u64 as they lie in the host's memory
NativeBytes(id, big_endian) ==
    IF big_endian THEN Reverse(LEBytes(id, NodeIdSize))
    ELSE LEBytes(id, NodeIdSize)

RECURSIVE SliceBytes(_, _)
SliceBytes(ids, big_endian) ==
    IF ids = <<>> THEN <<>>
    ELSE NativeBytes(Head(ids), big_endian) \o SliceBytes(Tail(ids), big_endian)

\* `node_ids.len().min(nodes_len as usize)`
CopyAll(n, nodes_len) == n
CopyNodesLen(n, nodes_len) == IF n < nodes_len THEN n ELSE nodes_len

\* `get_mut(start..end)` is Some when start <= end <= len
InMemory(start, end) == start <= end /\ end <= MemSize

\* get_nodes(nodes_ptr, nodes_len) of a sandbox that exports its memory; the
\* byte at address a is gn_mem[a + 1]
GetNodes(nodes_ptr, nodes_len, known, dist) ==
    /\ gn_pc = "idle"
    /\ gn_in' = [gn_in EXCEPT !.ptr = nodes_ptr, !.len = nodes_len,
                              !.known = known, !.dist = dist, !.before = gn_mem]
    /\ LET node_ids == IF dist THEN known ELSE <<>>
           copy_nodes_len == CopyNodesLen(Len(node_ids), nodes_len)
           end == nodes_ptr + NodeIdSize * copy_nodes_len
           bytes == SliceBytes(SubSeq(node_ids, 1, copy_nodes_len),
                               gn_in.big_endian)
       IN  IF InMemory(nodes_ptr, end)
           THEN /\ gn_mem' = [a \in 1..MemSize |->
                                 IF nodes_ptr < a /\ a <= end
                                 THEN bytes[a - nodes_ptr] ELSE gn_mem[a]]
                /\ gn_ret' = <<copy_nodes_len>>
                /\ gn_pc' = "done"
           ELSE /\ gn_pc' = "trapped"
                /\ UNCHANGED <<gn_mem, gn_ret>>

\* the count is returned to the sandbox
GnReturn ==
    /\ gn_pc = "done"
    /\ gn_pc' = "returned"
    /\ UNCHANGED <<gn_in, gn_mem, gn_ret>>

\* the host is little- or big-endian; the memory holds 0xAA or zero bytes
GnStart ==
    /\ gn_pc = "idle"
    /\ gn_in \in [ptr : {0}, len : {0}, known : {<<>>}, dist : {FALSE},
                 before : {<<>>}, big_endian : BOOLEAN]
    /\ gn_mem \in {[a \in 1..MemSize |-> 170], [a \in 1..MemSize |-> 0]}
    /\ gn_ret = <<>>

\* one host and one memory, for the specifications of the other operations
GnIdle == GnStart /\ ~gn_in.big_endian /\ gn_mem[1] = 0

SendStart == send_args = <<>>

\* `.take()` leaves None in the slot
SlotKept(slot) == slot
SlotAfterTake(slot) == <<>>

\* send(node_id, process_id), up to its await
SendCall(node, pid) ==
    /\ srs_pc = "idle"
    /\ send_args' = <<node, pid>>
    /\ srs_calls < MaxCalls
    /\ srs_calls' = srs_calls + 1
    /\ UNCHANGED <<mailbox, srs_timeout, srs_ret, distributed>>
    /\ IF scratch = <<>>
       THEN /\ srs_pc' = "trapped"
            /\ srs_trap' = "no_message"
            /\ UNCHANGED <<scratch, srs_message, send_attempts, last_sent>>
       ELSE /\ scratch' = SlotAfterTake(scratch)
            /\ srs_message' = scratch
            /\ IF scratch[1].kind = "Data"
               THEN IF distributed
                    THEN /\ srs_pc' = "sending"
                         /\ send_attempts' = send_attempts + 1
                         /\ last_sent' = [node |-> node, env |-> CallerEnv,
                                          process |-> pid, tag |-> scratch[1].tag,
                                          data |-> scratch[1].data]
                         /\ UNCHANGED srs_trap
                    ELSE /\ srs_pc' = "trapped"
                         /\ srs_trap' = "distributed"
                         /\ UNCHANGED <<send_attempts, last_sent>>
               ELSE /\ srs_pc' = "done"
                    /\ UNCHANGED <<srs_trap, send_attempts, last_sent>>

\* message_process(...).await? returns and send returns Ok(())
SendDone(ok) ==
    /\ srs_pc = "sending"
    /\ IF ok
       THEN srs_pc' = "done" /\ UNCHANGED srs_trap
       ELSE srs_pc' = "trapped" /\ srs_trap' = "send"
    /\ UNCHANGED <<scratch, mailbox, srs_message, srs_timeout, srs_ret,
                   srs_calls, send_attempts, last_sent, distributed>>

-----------------------------------------------------------------------------
\* the node has run for a while: environment 1 exists and holds process 1
NodeStart ==
    /\ next_msg_id = 1
    /\ wire = <<>>
    /\ tasks = [m \in MsgIds |-> NoTask]
    /\ modules = {}
    /\ envs = {FirstEnv}
    /\ procs = [e \in EnvIds |-> IF e = FirstEnv THEN {1} ELSE {}]
    /\ next_pid = [e \in EnvIds |-> IF e = FirstEnv THEN 2 ELSE 1]
    /\ mail = [ep \in EnvIds \X Pids |-> <<>>]
    /\ responses = <<>>
    /\ calls = [m \in MsgIds |-> NoCall]
    /\ get_count = [k \in ModuleIds |-> 0]
    /\ compile_count = [k \in ModuleIds |-> 0]

SrsStart ==
    /\ scratch = <<>>
    /\ mailbox = <<>>
    /\ srs_pc = "idle"
    /\ srs_message = <<>>
    /\ srs_timeout = 0
    /\ srs_ret = <<>>
    /\ srs_trap = ""
    /\ srs_calls = 0
    /\ send_attempts = 0
    /\ last_sent = NoRequest
    /\ distributed \in BOOLEAN

SupStart ==
    /\ result = "Running"
    /\ disable_signals = FALSE
    /\ signal_mailbox = <<>>
    /\ handle_alive = TRUE
    /\ rx_alive = TRUE
    /\ send_pc = [c \in Callers |-> "idle"]
    /\ fut_left \in 0..MaxFutSteps
    /\ fut_out \in {"ok", "err", "never"}
    /\ fut_polls = 0
    /\ none_seen = 0
    /\ last_recv = "-"
    /\ logged = FALSE
    /\ task_out = "-"

SupInit == SupStart /\ SrsStart /\ distributed /\ NodeStart /\ HostStart /\ GnIdle /\ SendStart

SupNext ==
    \/ SupervisorPoll /\ UNCHANGED <<srsVars, nodeVars, hostVars, gnVars, sendVars>>
    \/ TaskEnd /\ UNCHANGED <<srsVars, nodeVars, hostVars, gnVars, sendVars>>
    \/ DropHandle /\ UNCHANGED <<srsVars, nodeVars, hostVars, gnVars, sendVars>>
    \/ \E c \in Callers : SendSignal(c) /\ UNCHANGED <<srsVars, nodeVars, hostVars, gnVars, sendVars>>
    \/ \E c \in Callers : SendResume(c) /\ UNCHANGED <<srsVars, nodeVars, hostVars, gnVars, sendVars>>

SupSpec == SupInit /\ [][SupNext]_vars

\* the executor polls a runnable task and wakes a waiting sender
SupFair ==
    /\ SupSpec
    /\ WF_vars(SupervisorPoll /\ UNCHANGED <<srsVars, nodeVars, hostVars, gnVars, sendVars>>)
    /\ WF_vars(TaskEnd /\ UNCHANGED <<srsVars, nodeVars, hostVars, gnVars, sendVars>>)
    /\ \A c \in Callers : WF_vars(SendResume(c) /\ UNCHANGED <<srsVars, nodeVars, hostVars, gnVars, sendVars>>)

SrsInit ==
    /\ SupStart /\ fut_left = 0 /\ fut_out = "ok"
    /\ SrsStart
    /\ NodeStart
    /\ HostStart /\ GnIdle /\ SendStart

SrsNext ==
    \/ \E m \in Messages : Stage(m) /\ UNCHANGED <<supVars, nodeVars, hostVars, gnVars, sendVars>>
    \/ GuestTake /\ UNCHANGED <<supVars, nodeVars, hostVars, gnVars, sendVars>>
    \/ \E m \in Messages : Arrive(m) /\ UNCHANGED <<supVars, nodeVars, hostVars, gnVars, sendVars>>
    \/ \E n \in NodeIds, p \in ProcIds, t \in Timeouts :
          SrsCall(n, p, t) /\ UNCHANGED <<supVars, nodeVars, hostVars, gnVars, sendVars>>
    \/ \E ok \in BOOLEAN : SrsSendDone(ok) /\ UNCHANGED <<supVars, nodeVars, hostVars, gnVars, sendVars>>
    \/ SrsReceive /\ UNCHANGED <<supVars, nodeVars, hostVars, gnVars, sendVars>>
    \/ SrsTimeout /\ UNCHANGED <<supVars, nodeVars, hostVars, gnVars, sendVars>>
    \/ SrsReturn /\ UNCHANGED <<supVars, nodeVars, hostVars, gnVars, sendVars>>

SrsSpec == SrsInit /\ [][SrsNext]_vars

NodeInit ==
    /\ SupStart /\ fut_left = 0 /\ fut_out = "ok"
    /\ SrsStart /\ distributed
    /\ NodeStart
    /\ HostStart /\ GnIdle /\ SendStart

NodeNext ==
    \/ \E e \in EnvIds, k \in ModuleIds, sent \in BOOLEAN, ok \in BOOLEAN :
          ClientSpawn(e, k, sent, ok) /\ UNCHANGED <<supVars, srsVars, hostVars, gnVars, sendVars>>
    \/ \E e \in EnvIds, p \in ProcIds, t \in MsgTags :
          ClientMessage(e, p, t) /\ UNCHANGED <<supVars, srsVars, hostVars, gnVars, sendVars>>
    \/ \E m \in MsgIds, ok \in BOOLEAN :
          ClientSpawnReturn(m, ok) /\ UNCHANGED <<supVars, srsVars, hostVars, gnVars, sendVars>>
    \/ HandleConnection /\ UNCHANGED <<supVars, srsVars, hostVars, gnVars, sendVars>>
    \/ \E m \in MsgIds, c \in BOOLEAN, st \in BOOLEAN :
          HandleSpawnStart(m, c, st) /\ UNCHANGED <<supVars, srsVars, hostVars, gnVars, sendVars>>
    \/ \E m \in MsgIds : GetModuleDone(m) /\ UNCHANGED <<supVars, srsVars, hostVars, gnVars, sendVars>>
    \/ \E m \in MsgIds, ok \in BOOLEAN, st \in BOOLEAN :
          CompileDone(m, ok, st) /\ UNCHANGED <<supVars, srsVars, hostVars, gnVars, sendVars>>
    \/ \E m \in MsgIds, ok \in BOOLEAN :
          SpawnWasmDone(m, ok) /\ UNCHANGED <<supVars, srsVars, hostVars, gnVars, sendVars>>
    \/ \E m \in MsgIds, ok \in BOOLEAN :
          SendResponse(m, ok) /\ UNCHANGED <<supVars, srsVars, hostVars, gnVars, sendVars>>
    \/ \E m \in MsgIds : HandleProcessMessage(m) /\ UNCHANGED <<supVars, srsVars, hostVars, gnVars, sendVars>>
    \/ \E e \in EnvIds, p \in Pids :
          ProcessExit(e, p) /\ UNCHANGED <<supVars, srsVars, hostVars, gnVars, sendVars>>

NodeSpec == NodeInit /\ [][NodeNext]_vars

\* the executor runs every spawned task, the connection is read, and an
\* awaiting call is woken by its response; requesters and processes are free
NodeFair ==
    /\ NodeSpec
    /\ WF_vars(HandleConnection /\ UNCHANGED <<supVars, srsVars, hostVars, gnVars, sendVars>>)
    /\ \A m \in MsgIds :
          /\ WF_vars((\E c \in BOOLEAN, st \in BOOLEAN : HandleSpawnStart(m, c, st))
                        /\ UNCHANGED <<supVars, srsVars, hostVars, gnVars, sendVars>>)
          /\ WF_vars(GetModuleDone(m) /\ UNCHANGED <<supVars, srsVars, hostVars, gnVars, sendVars>>)
          /\ WF_vars((\E ok \in BOOLEAN, st \in BOOLEAN : CompileDone(m, ok, st))
                        /\ UNCHANGED <<supVars, srsVars, hostVars, gnVars, sendVars>>)
          /\ WF_vars((\E ok \in BOOLEAN : SpawnWasmDone(m, ok))
                        /\ UNCHANGED <<supVars, srsVars, hostVars, gnVars, sendVars>>)
          /\ WF_vars((\E ok \in BOOLEAN : SendResponse(m, ok))
                        /\ UNCHANGED <<supVars, srsVars, hostVars, gnVars, sendVars>>)
          /\ WF_vars(HandleProcessMessage(m) /\ UNCHANGED <<supVars, srsVars, hostVars, gnVars, sendVars>>)
          /\ WF_vars((\E ok \in BOOLEAN : ClientSpawnReturn(m, ok))
                        /\ UNCHANGED <<supVars, srsVars, hostVars, gnVars, sendVars>>)

\* the connection and the tasks of its requests: the steps of the server and
\* the requests written to it
ConnNext ==
    \/ \E e \in EnvIds, k \in ModuleIds, sent \in BOOLEAN, ok \in BOOLEAN :
          ClientSpawn(e, k, sent, ok) /\ UNCHANGED <<supVars, srsVars, hostVars, gnVars, sendVars>>
    \/ \E e \in EnvIds, p \in ProcIds, t \in MsgTags :
          ClientMessage(e, p, t) /\ UNCHANGED <<supVars, srsVars, hostVars, gnVars, sendVars>>
    \/ HandleConnection /\ UNCHANGED <<supVars, srsVars, hostVars, gnVars, sendVars>>
    \/ \E m \in MsgIds, c \in BOOLEAN, st \in BOOLEAN :
          HandleSpawnStart(m, c, st) /\ UNCHANGED <<supVars, srsVars, hostVars, gnVars, sendVars>>
    \/ \E m \in MsgIds : GetModuleDone(m) /\ UNCHANGED <<supVars, srsVars, hostVars, gnVars, sendVars>>
    \/ \E m \in MsgIds, ok \in BOOLEAN, st \in BOOLEAN :
          CompileDone(m, ok, st) /\ UNCHANGED <<supVars, srsVars, hostVars, gnVars, sendVars>>
    \/ \E m \in MsgIds, ok \in BOOLEAN :
          SpawnWasmDone(m, ok) /\ UNCHANGED <<supVars, srsVars, hostVars, gnVars, sendVars>>
    \/ \E m \in MsgIds, ok \in BOOLEAN :
          SendResponse(m, ok) /\ UNCHANGED <<supVars, srsVars, hostVars, gnVars, sendVars>>
    \/ \E m \in MsgIds : HandleProcessMessage(m) /\ UNCHANGED <<supVars, srsVars, hostVars, gnVars, sendVars>>

ConnSpec == NodeInit /\ [][ConnNext]_vars

\* the executor runs the connection's read loop and every spawned task but
\* the task of the first request read, which may wait forever (for the
\* control plane, for the compilation, ...)
LaterIds == MsgIds \ {1}

ConnFair ==
    /\ ConnSpec
    /\ WF_vars(HandleConnection /\ UNCHANGED <<supVars, srsVars, hostVars, gnVars, sendVars>>)
    /\ \A m \in LaterIds :
          /\ WF_vars((\E c \in BOOLEAN, st \in BOOLEAN : HandleSpawnStart(m, c, st))
                        /\ UNCHANGED <<supVars, srsVars, hostVars, gnVars, sendVars>>)
          /\ WF_vars(GetModuleDone(m) /\ UNCHANGED <<supVars, srsVars, hostVars, gnVars, sendVars>>)
          /\ WF_vars((\E ok \in BOOLEAN, st \in BOOLEAN : CompileDone(m, ok, st))
                        /\ UNCHANGED <<supVars, srsVars, hostVars, gnVars, sendVars>>)
          /\ WF_vars((\E ok \in BOOLEAN : SpawnWasmDone(m, ok))
                        /\ UNCHANGED <<supVars, srsVars, hostVars, gnVars, sendVars>>)
          /\ WF_vars((\E ok \in BOOLEAN : SendResponse(m, ok))
                        /\ UNCHANGED <<supVars, srsVars, hostVars, gnVars, sendVars>>)
          /\ WF_vars(HandleProcessMessage(m) /\ UNCHANGED <<supVars, srsVars, hostVars, gnVars, sendVars>>)

HostInit ==
    /\ SupStart /\ fut_left = 0 /\ fut_out = "ok"
    /\ SrsStart /\ distributed
    /\ NodeStart
    /\ HostStart /\ GnIdle /\ SendStart

HostNext ==
    \/ \E can \in BOOLEAN, f \in SpawnFailures, b \in ParamBuffers,
          k \in ModuleIds, sent \in BOOLEAN, ok \in BOOLEAN :
          HostSpawn(can, f, b, k, sent, ok) /\ UNCHANGED <<supVars, srsVars, gnVars, sendVars>>
    \/ HostSpawnReturn /\ UNCHANGED <<supVars, srsVars, gnVars, sendVars>>

HostSpec == HostInit /\ [][HostNext]_vars

GnInit ==
    /\ SupStart /\ fut_left = 0 /\ fut_out = "ok"
    /\ SrsStart /\ distributed
    /\ NodeStart
    /\ HostStart /\ GnStart /\ SendStart

GnNext ==
    \/ \E p \in Pointers, c \in Capacities, l \in NodeLists, d \in BOOLEAN :
          GetNodes(p, c, l, d) /\ UNCHANGED <<supVars, srsVars, nodeVars, hostVars, sendVars>>
    \/ GnReturn /\ UNCHANGED <<supVars, srsVars, nodeVars, hostVars, sendVars>>

GnSpec == GnInit /\ [][GnNext]_vars

SendNext ==
    \/ \E m \in Messages : Stage(m) /\ UNCHANGED <<supVars, nodeVars, hostVars, gnVars, sendVars>>
    \/ GuestTake /\ UNCHANGED <<supVars, nodeVars, hostVars, gnVars, sendVars>>
    \/ \E n \in NodeIds, p \in ProcIds :
          SendCall(n, p) /\ UNCHANGED <<supVars, nodeVars, hostVars, gnVars>>
    \/ \E ok \in BOOLEAN : SendDone(ok) /\ UNCHANGED <<supVars, nodeVars, hostVars, gnVars, sendVars>>
    \/ SrsReturn /\ UNCHANGED <<supVars, nodeVars, hostVars, gnVars, sendVars>>

SendSpec == SrsInit /\ [][SendNext]_vars

-----------------------------------------------------------------------------
(***************************************************************************)
(* Claims about the Process Supervisor                                     *)
(***************************************************************************)

\* C1: while the supervisor is Running and a Kill is buffered in the signal
\* channel, a poll of the supervisor ends in Finished::Signal(Kill); no step
\* ends in Finished::Wasm and no step polls the computation, whether or not
\* the computation is ready and whether or not the sender is still alive.
C1_KillPreempts ==
    [][(result = "Running" /\ signal_mailbox # <<>>) =>
          /\ (SupervisorPoll => result' = "Signal")
          /\ result' \in {"Running", "Signal"}
          /\ fut_polls' = fut_polls]_vars

\* C1 witness: the Kill was received from a channel whose sender was already
\* dropped, by the very first poll, of a computation that was ready.
C1_Witness ==
    /\ result = "Signal"
    /\ last_recv = "KillClosed"
    /\ fut_polls = 0
    /\ fut_left = 0
    /\ fut_out = "ok"

ClosedAndEmpty ==
    ~handle_alive /\ signal_mailbox = <<>> /\ result = "Running"

\* C2: recv() returns None at most once; once the branch is disabled it
\* stays disabled and is not evaluated again; with no sender and no buffered
\* Kill the supervisor never finishes with Finished::Signal, and if the
\* computation resolves the supervisor finishes with Finished::Wasm.
C2_ClosedChannelDisabled ==
    /\ [](none_seen <= 1)
    /\ [][disable_signals =>
            (disable_signals' /\ none_seen' = none_seen /\ result' # "Signal")]_vars
    /\ [][ClosedAndEmpty => result' # "Signal"]_vars
    /\ ((ClosedAndEmpty /\ fut_out # "never") ~> (result \in {"WasmOk", "WasmErr"}))

\* C2 witness: the closed channel was seen once, later select! evaluations
\* had the branch disabled, and the computation completed after several polls.
C2_Witness ==
    /\ result = "WasmOk"
    /\ none_seen = 1
    /\ disable_signals
    /\ last_recv = "Disabled"
    /\ fut_polls = MaxFutSteps + 1

-----------------------------------------------------------------------------
(***************************************************************************)
(* Claims about send_receive_skip_search                                   *)
(***************************************************************************)

SrsCalled == srs_pc = "idle" /\ srs_pc' # "idle"

\* C4 as stated: a call with an empty Scratch Slot returns the no-message
\* status 9027 and attempts no send.
C4_Original ==
    [][(SrsCalled /\ scratch = <<>>) =>
          /\ srs_pc' = "done"
          /\ srs_ret' = <<NoMessageStatus>>
          /\ send_attempts' = send_attempts]_vars

\* C4 as amended: a call with an empty Scratch Slot traps
\* (lunatic::message::send::no_message), returns no status and attempts no
\* send; the no-message status without a send is what a staged message that
\* is not a Data message gets.
C4_EmptySlotTraps ==
    [][SrsCalled =>
          /\ scratch = <<>> =>
                /\ srs_pc' = "trapped"
                /\ srs_trap' = "no_message"
                /\ srs_ret' = <<>>
                /\ send_attempts' = send_attempts
                /\ mailbox' = mailbox
          /\ (scratch # <<>> /\ scratch[1].kind # "Data") =>
                /\ srs_pc' = "done"
                /\ srs_ret' = <<NoMessageStatus>>
                /\ send_attempts' = send_attempts]_vars

\* C4 witness: the call trapped on the empty slot, without any send.
C4_Witness ==
    /\ srs_pc = "trapped"
    /\ srs_trap = "no_message"
    /\ srs_message = <<>>
    /\ send_attempts = 0

TimedOut == srs_pc = "waiting" /\ srs_pc' = "done" /\ srs_ret' = <<NoMessageStatus>>

\* C5: with a staged Data message sent and timeout > 0, the timer firing
\* returns 9027; that step writes nothing into the Scratch Slot, removes no
\* mailbox message, and the slot holds no message on return.
C5_TimeoutLeavesSlot ==
    [][/\ SrsTimeout => TimedOut
       /\ TimedOut =>
            /\ srs_timeout > 0
            /\ srs_message[1].kind = "Data"
            /\ scratch' = scratch
            /\ scratch' = <<>>
            /\ mailbox' = mailbox]_vars

\* C5 witness: the call timed out while the mailbox held messages, none of
\* them matching the outbound tag.
C5_Witness ==
    /\ srs_pc = "done"
    /\ srs_ret = <<NoMessageStatus>>
    /\ srs_timeout > 0
    /\ srs_message # <<>>
    /\ srs_message[1].kind = "Data"
    /\ send_attempts > 0
    /\ mailbox # <<>>
    /\ PopIndex(mailbox, SrsTags(srs_message[1])) = 0

NoReply ==
    \A i \in 1..Len(mailbox) : ~Matches(mailbox[i], SrsTags(srs_message[1]))

\* C6: with timeout = 0 the timer branch is never enabled; a waiting call
\* leaves the wait only with status 0 and a matching message, so while no
\* matching reply is in the mailbox it does not return.
C6_ZeroMeansNoTimeout ==
    /\ []((srs_pc = "waiting" /\ srs_timeout = 0) => ~ENABLED SrsTimeout)
    /\ [][(srs_pc = "waiting" /\ srs_timeout = 0) =>
            /\ srs_pc' \in {"waiting", "done"}
            /\ srs_pc' = "done" => (srs_ret' = <<SuccessStatus>> /\ ~NoReply)
            /\ NoReply => srs_pc' = "waiting"]_vars

\* C6 witness: the call waits with timeout 0, the mailbox is full of
\* messages that do not match, and no step of the call is enabled.
C6_Witness ==
    /\ srs_pc = "waiting"
    /\ srs_timeout = 0
    /\ Len(mailbox) = MaxMailbox
    /\ NoReply
    /\ ~ENABLED SrsReceive
    /\ ~ENABLED SrsTimeout

OutTagMatches(m) ==
    srs_message[1].tag = <<>> \/ m.tag = srs_message[1].tag

\* C7: when the call returns 0, the Scratch Slot holds the first message in
\* mailbox order whose tag equals the outbound message's tag (the first
\* message when the outbound message has no tag); that one message is
\* removed and the others keep their order.
C7_FirstMatchingReply ==
    [][(srs_pc = "waiting" /\ srs_pc' = "done" /\ srs_ret' = <<SuccessStatus>>) =>
          \E i \in 1..Len(mailbox) :
             /\ OutTagMatches(mailbox[i])
             /\ \A j \in 1..(i - 1) : ~OutTagMatches(mailbox[j])
             /\ scratch' = <<mailbox[i]>>
             /\ Len(mailbox') = Len(mailbox) - 1
             /\ \A j \in 1..(i - 1) : mailbox'[j] = mailbox[j]
             /\ \A j \in (i + 1)..Len(mailbox) : mailbox'[j - 1] = mailbox[j]]_vars

\* C7 witness: the reply was taken from behind a message with another tag,
\* which stays queued.
C7_Witness ==
    /\ srs_pc = "done"
    /\ srs_ret = <<SuccessStatus>>
    /\ srs_message[1].tag = <<2>>
    /\ scratch # <<>>
    /\ scratch[1].tag = <<2>>
    /\ mailbox # <<>>
    /\ mailbox[1].tag = <<1>>

-----------------------------------------------------------------------------
(***************************************************************************)
(* Claims about the Node Server and spawn                                  *)
(***************************************************************************)

SpawnCallFailed(m) ==
    /\ calls[m].pc = "done"
    /\ calls[m].status = <<SpawnFailedStatus>>
    /\ calls[m].out = <<SpawnFailedId>>

\* C3 as stated: when the target node fails to handle the Spawn request of
\* an awaiting spawn call, the call completes with the sentinel id written
\* and status 1; a call that returns status 0 wrote the id of the process
\* created for its request.
C3_RemoteFailureReported ==
    /\ \A m \in MsgIds :
          (calls[m].pc = "waiting" /\ tasks[m].pc = "failed") ~> SpawnCallFailed(m)
    /\ [](\A m \in MsgIds :
            (calls[m].pc = "done" /\ calls[m].status = <<SpawnOkStatus>>) =>
                (tasks[m].pc = "done" /\ calls[m].out = <<tasks[m].proc>>))

InstantiatedOnMiss(m) ==
    /\ tasks[m].kind = "Spawn"
    /\ tasks[m].lookup = "miss"
    /\ tasks[m].proc # 0

\* C8: a Spawn request that misses the module cache and instantiates its
\* process has made exactly one get_module and one compile by then; a Spawn
\* request for the same module id that starts after such a request is done
\* hits the cache: its start makes no get_module call, and a request that
\* hit the cache never fetches or compiles.
C8_FetchOnceThenHit ==
    /\ [](\A m \in MsgIds :
            /\ InstantiatedOnMiss(m) =>
                  (tasks[m].fetched = 1 /\ tasks[m].compiled = 1)
            /\ tasks[m].lookup = "hit" =>
                  (tasks[m].fetched = 0 /\ tasks[m].compiled = 0))
    /\ [][\A m \in MsgIds :
            (/\ tasks[m].pc = "start"
             /\ tasks'[m].pc # "start"
             /\ tasks[m].kind = "Spawn"
             /\ \E f \in MsgIds : /\ InstantiatedOnMiss(f)
                                  /\ tasks[f].pc = "done"
                                  /\ tasks[f].module = tasks[m].module) =>
                /\ tasks'[m].lookup # "miss"
                /\ tasks'[m].pc \in {"spawning", "failed"}
                /\ get_count' = get_count
                /\ compile_count' = compile_count]_vars

\* C8 witness: the first request fetched and compiled module 1 once and is
\* done; the second request for module 1 hit the cache and is done too.
C8_Witness ==
    \E f, m \in MsgIds :
       /\ f < m
       /\ InstantiatedOnMiss(f) /\ tasks[f].pc = "done"
       /\ tasks[m].kind = "Spawn" /\ tasks[m].module = tasks[f].module
       /\ tasks[m].lookup = "hit" /\ tasks[m].pc = "done"
       /\ get_count[tasks[f].module] = 1
       /\ compile_count[tasks[f].module] = 1

MessageToAbsent(m) ==
    /\ tasks[m].kind = "Message"
    /\ tasks[m].pc = "start"
    /\ tasks'[m].pc # "start"
    /\ tasks[m].process \notin procs[tasks[m].env]

\* C9: handling a Message request whose process id is not in the resolved
\* environment ends Ok, writes no response, changes no mailbox and creates
\* or removes no process in any environment.
C9_MessageToAbsentProcess ==
    [][\A m \in MsgIds :
          MessageToAbsent(m) =>
             /\ tasks'[m].pc = "done"
             /\ responses' = responses
             /\ mail' = mail
             /\ procs' = procs
             /\ next_pid' = next_pid]_vars

\* C9 witness: a Message request for a process of an environment that never
\* held a process was handled, while another environment's process lives.
C9_Witness ==
    \E m \in MsgIds :
       /\ tasks[m].kind = "Message"
       /\ tasks[m].pc = "done"
       /\ tasks[m].env # FirstEnv
       /\ next_pid[tasks[m].env] = 1
       /\ procs[FirstEnv] # {}

\* C10: every response carries the correlation id of a Spawn request that
\* was read and whose process was created, with that process's id; no
\* request gets two responses, a Message request gets none, and two requests
\* for one environment get different processes.
C10_ResponsesCorrelated ==
    /\ \A i \in 1..Len(responses) :
          LET t == tasks[responses[i].msg_id] IN
          /\ t.kind = "Spawn"
          /\ t.pc = "done"
          /\ t.proc # 0
          /\ responses[i].id = t.proc
          /\ t.proc < next_pid[t.env]
    /\ \A i, j \in 1..Len(responses) :
          responses[i].msg_id = responses[j].msg_id => i = j
    /\ \A m, k \in MsgIds :
          (m # k /\ tasks[m].proc # 0 /\ tasks[k].proc # 0
             /\ tasks[m].env = tasks[k].env) => tasks[m].proc # tasks[k].proc

\* C10 witness: two Spawn requests were answered in the opposite order of
\* their arrival.
C10_Witness ==
    /\ Len(responses) = 2
    /\ responses[1].msg_id = 2
    /\ responses[2].msg_id = 1

-----------------------------------------------------------------------------
(***************************************************************************)
(* Claims about the host operations spawn, send and get_nodes              *)
(***************************************************************************)

\* the step in which spawn is called
SpawnCalled == hs_pc = "idle" /\ hs_pc' # "idle"

\* C11: spawn called by a process without the spawn capability fails with
\* the permission error and does nothing else: no correlation id is taken, no
\* request is written, no process is created, nothing is written to id_ptr
\* and no parameter is decoded.
C11_NoCapabilityNoEffect ==
    [][(SpawnCalled /\ ~hs_in'.can_spawn) =>
          /\ hs_pc' = "trapped"
          /\ hs_trap' = "permission"
          /\ hs_params' = <<>>
          /\ wire' = wire
          /\ procs' = procs
          /\ calls' = calls
          /\ next_msg_id' = next_msg_id]_vars

\* a call without the capability whose other inputs are all good
C11_Witness ==
    /\ hs_pc = "trapped"
    /\ ~hs_in.can_spawn
    /\ hs_in.fail = "none"
    /\ DecodeParams(hs_in.buf).ok
    /\ Len(hs_in.buf) = RecordSize

\* the complete records of a buffer and the record k's bytes
NumRecords(buf) == Len(buf) \div 17
TagOf(buf, k) == buf[17 * (k - 1) + 1]
PayloadByte(buf, k, i) == buf[17 * (k - 1) + 1 + i]
KnownTag(t) == t \in {127, 126, 123}
VariantOf(t) == IF t = 127 THEN "I32" ELSE IF t = 126 THEN "I64" ELSE "V128"
WidthOf(t) == IF t = 127 THEN 4 ELSE IF t = 126 THEN 8 ELSE 16

\* the step in which spawn reaches the decoding of its parameters
DecodeReached == SpawnCalled /\ hs_in'.can_spawn /\ hs_in'.fail \notin BeforeDecode

\* C14: when spawn decodes a parameter buffer that has a complete 17-byte
\* record with a tag other than 0x7F, 0x7E, 0x7B, the call fails, yields no
\* value and sends no request; otherwise it yields one value per complete
\* record, in order, of the tag's variant, whose bytes are the first 4, 8 or
\* 16 payload bytes, least significant first.
C14_DecodeParams ==
    [][DecodeReached =>
          LET buf == hs_in'.buf IN
          IF \E k \in 1..NumRecords(buf) : ~KnownTag(TagOf(buf, k))
          THEN /\ hs_pc' = "trapped"
               /\ hs_trap' = "unsupported_type"
               /\ hs_params' = <<>>
               /\ wire' = wire
               /\ calls' = calls
          ELSE /\ Len(hs_params') = 1
               /\ Len(hs_params'[1]) = NumRecords(buf)
               /\ \A k \in 1..NumRecords(buf) :
                     LET v == hs_params'[1][k] IN
                     /\ v.ty = VariantOf(TagOf(buf, k))
                     /\ Len(v.le) = WidthOf(TagOf(buf, k))
                     /\ \A i \in 1..Len(v.le) : v.le[i] = PayloadByte(buf, k, i)]_vars

\* two records and a partial one were decoded and the request was sent
C14_Witness ==
    /\ hs_pc = "issued"
    /\ wire # <<>>
    /\ Len(hs_in.buf) = 2 * RecordSize + (RecordSize - 1)
    /\ hs_params # <<>>
    /\ Len(hs_params[1]) = 2
    /\ hs_params[1][1].ty = "I32"
    /\ hs_params[1][2].ty = "V128"

\* the step in which send is called
SendCalled == srs_pc = "idle" /\ srs_pc' # "idle"

\* C12 as stated: every send with a staged Data message issues one request.
C12_Original ==
    [][(SendCalled /\ scratch # <<>> /\ scratch[1].kind = "Data") =>
          send_attempts' = send_attempts + 1]_vars

\* C12: send with an empty Scratch Slot fails and issues no request; with a
\* staged Data message it issues, under a distributed context, one Message
\* request with the caller's environment id, the given node and process id
\* and the message's tag and payload, and without one it fails and issues
\* none; with another staged message it issues none; no later step of the
\* call issues a request; when the call returns the Scratch Slot is empty.
C12_SendOnce ==
    [][/\ SendCalled =>
            IF scratch = <<>>
            THEN srs_pc' = "trapped" /\ send_attempts' = send_attempts
            ELSE IF scratch[1].kind # "Data"
            THEN srs_pc' = "done" /\ send_attempts' = send_attempts
            ELSE IF ~distributed
            THEN srs_pc' = "trapped" /\ send_attempts' = send_attempts
            ELSE /\ send_attempts' = send_attempts + 1
                 /\ last_sent' = [node |-> send_args'[1], env |-> CallerEnv,
                                  process |-> send_args'[2],
                                  tag |-> scratch[1].tag,
                                  data |-> scratch[1].data]
       /\ ~SendCalled => send_attempts' = send_attempts /\ last_sent' = last_sent
       /\ srs_pc' = "done" => scratch' = <<>>]_vars

\* two calls with a staged Data message returned, each after one request
C12_Witness ==
    /\ srs_pc = "done"
    /\ srs_calls = 2
    /\ send_attempts = 2
    /\ srs_message # <<>>
    /\ srs_message[1].kind = "Data"
    /\ last_sent.node = send_args[1]
    /\ last_sent.data = srs_message[1].data

\* get_nodes was called; N is the number of known nodes, K = min(C, N)
GnCalled == gn_pc # "idle"
GnKnown == IF gn_in.dist THEN Len(gn_in.known) ELSE 0
GnCount == IF gn_in.len < GnKnown THEN gn_in.len ELSE GnKnown
\* the 8 bytes of a node id, in the one or the other byte order
IdBytes(id) == {LEBytes(id, 8), Reverse(LEBytes(id, 8))}

\* C13: get_nodes(dest_ptr, C) with N known nodes (none without a distributed
\* context) and K = min(C, N): when dest_ptr + 8*K is within the memory it
\* returns K, the bytes from dest_ptr on are the first K node ids in the
\* control plane's order, 8 bytes each, and every other byte of the memory is
\* as before; otherwise it traps and the memory is as before.
C13_GetNodes ==
    GnCalled =>
       IF gn_in.ptr + 8 * GnCount <= MemSize
       THEN /\ gn_pc # "trapped"
            /\ gn_ret = <<GnCount>>
            /\ \A k \in 1..GnCount :
                  [i \in 1..8 |-> gn_mem[gn_in.ptr + 8 * (k - 1) + i]]
                     \in IdBytes(gn_in.known[k])
            /\ \A a \in 0..(MemSize - 1) :
                  (a < gn_in.ptr \/ a >= gn_in.ptr + 8 * GnCount)
                     => gn_mem[a + 1] = gn_in.before[a + 1]
       ELSE /\ gn_pc = "trapped"
            /\ gn_ret = <<>>
            /\ gn_mem = gn_in.before

\* two of two known nodes were copied to the end of the memory although the
\* capacity was three
C13_Witness ==
    /\ gn_pc = "returned"
    /\ gn_in.dist
    /\ Len(gn_in.known) = 2
    /\ gn_in.len = 3
    /\ gn_in.ptr + 16 = MemSize
    /\ gn_ret = <<2>>
    /\ gn_mem # gn_in.before

-----------------------------------------------------------------------------
(***************************************************************************)
(* Claims about the Node Server's tasks                                    *)
(***************************************************************************)

OnWire(m) == \E i \in 1..Len(wire) : wire[i].msg_id = m
Responded(m) == \E i \in 1..Len(responses) : responses[i].msg_id = m

\* C15: whatever becomes of the handling of the first request read, which
\* may wait forever, every later request written to the connection is
\* eventually read and dispatched, and a later Spawn request's handling
\* eventually writes its response unless it fails.
C15_ReadSideNotBlocked ==
    \A m \in LaterIds :
       /\ OnWire(m) ~> (tasks[m].pc # "none")
       /\ (tasks[m].kind = "Spawn" /\ tasks[m].pc = "start")
             ~> (Responded(m) \/ tasks[m].pc = "failed")

\* the first Spawn request waits for the control plane, a later one was
\* answered
C15_Witness ==
    /\ tasks[1].kind = "Spawn"
    /\ tasks[1].pc = "fetching"
    /\ ~Responded(1)
    /\ \E m \in LaterIds : tasks[m].kind = "Spawn" /\ Responded(m)

-----------------------------------------------------------------------------
(***************************************************************************)
(* Claims about the Process Supervisor's outcome and its senders           *)
(***************************************************************************)

Terminal == {"Signal", "WasmOk", "WasmErr"}

\* C16: the supervisor's outcome, once it is one of Finished::Signal(Kill),
\* Finished::Wasm(Ok) and Finished::Wasm(Err), never changes; once it is
\* Finished::Signal(Kill) the computation is not polled and makes no step;
\* with the outcome Finished::Wasm(Err) the task logs the error and ends
\* by returning.
C16_OneOutcome ==
    [][/\ result \in Terminal => result' = result
       /\ result' \in Terminal \cup {"Running"}
       /\ result = "Signal" => fut_polls' = fut_polls /\ fut_left' = fut_left
       /\ (result = "WasmErr" /\ rx_alive /\ ~rx_alive')
             => logged' /\ task_out' = "returned"]_vars

\* the computation trapped, the task logged it and ended, and a later
\* send_signal found the receiver gone
C16_Witness ==
    /\ result = "WasmErr"
    /\ task_out = "returned"
    /\ logged
    /\ fut_polls > 0
    /\ \E c \in Callers : send_pc[c] = "err"

\* C20: under fair scheduling of the supervisor task and of the woken
\* senders, once a send_signal(Kill) was called the supervisor reaches one
\* of its outcomes, and every send_signal that waits on the full channel
\* returns: Ok when its Kill was enqueued, an error only when the receiver
\* is gone, which is after the supervisor has finished.
C20_SendersReturn ==
    /\ \A c \in Callers : (send_pc[c] # "idle") ~> (result \in Terminal)
    /\ \A c \in Callers : (send_pc[c] = "blocked") ~> (send_pc[c] \in {"ok", "err"})
    /\ [](\A c \in Callers : send_pc[c] = "err" => ~rx_alive /\ result \in Terminal)

\* one sender enqueued its Kill, the other waited on the full channel and
\* got the error after the supervisor was killed
C20_Witness ==
    /\ result = "Signal"
    /\ ~rx_alive
    /\ \E c, d \in Callers : send_pc[c] = "ok" /\ send_pc[d] = "err"

-----------------------------------------------------------------------------
(***************************************************************************)
(* Claims about concurrent requests on the Node Server                     *)
(***************************************************************************)

\* the Spawn requests for module k whose cache lookup was a miss
MissTasks(ts, k) ==
    {m \in MsgIds : ts[m].kind = "Spawn" /\ ts[m].module = k /\ ts[m].lookup = "miss"}

\* C17 as stated: on the node a module id is fetched and compiled at most
\* once, however the Spawn requests interleave.
C17_Original ==
    \A k \in ModuleIds : get_count[k] <= 1 /\ compile_count[k] <= 1

\* C17: a module id is fetched once for each Spawn request whose lookup
\* missed the cache and never while it is cached, it is compiled at most
\* once per fetch, and no request fetches or compiles twice.
C17_OncePerMiss ==
    [][\A k \in ModuleIds :
          /\ get_count'[k] = Cardinality(MissTasks(tasks', k))
          /\ compile_count'[k] <= get_count'[k]
          /\ get_count'[k] # get_count[k] => k \notin modules
          /\ \A m \in MsgIds : tasks'[m].fetched <= 1 /\ tasks'[m].compiled <= 1]_vars

\* two requests raced on the first use of module 1: it was fetched and
\* compiled twice
C17_Witness ==
    /\ get_count[1] = 2
    /\ compile_count[1] = 2
    /\ 1 \in modules

\* a response Spawned(p) was written for a Spawn request of environment e
RespondedWith(e, p) ==
    \E i \in 1..Len(responses) :
       /\ responses[i].id = p
       /\ tasks[responses[i].msg_id].kind = "Spawn"
       /\ tasks[responses[i].msg_id].env = e

\* C18: the id in a response written for a Spawn request is the id under
\* which the request's process was registered in the request's environment,
\* before the response; and the handling of a Message request for that
\* environment and id, done after the response while the process is alive,
\* appends the Data message to the process's mailbox.
C18_SpawnedThenDelivered ==
    [][/\ Len(responses') > Len(responses) =>
             LET r == responses'[Len(responses')]
                 e == tasks[r.msg_id].env
             IN  /\ r.id = tasks[r.msg_id].proc
                 /\ r.id >= 1
                 /\ r.id < next_pid[e]
                 /\ e \in envs
       /\ \A m \in MsgIds :
             LET e == tasks[m].env
                 p == tasks[m].process
             IN  (/\ tasks[m].kind = "Message"
                  /\ tasks[m].pc = "start" /\ tasks'[m].pc = "done"
                  /\ RespondedWith(e, p)
                  /\ p \in procs[e])
                 => mail'[<<e, p>>] =
                      Append(mail[<<e, p>>], [tag |-> tasks[m].tag, data |-> m])]_vars

\* a process was spawned in environment 2, its id was sent back, and a
\* Message request handled afterwards is in its mailbox
C18_Witness ==
    /\ RespondedWith(2, 1)
    /\ tasks[1].kind = "Spawn" /\ tasks[1].env = 2
    /\ tasks[2].kind = "Message" /\ tasks[2].pc = "done"
    /\ Len(mail[<<2, 1>>]) = 1
    /\ mail[<<2, 1>>][1].data = 2

\* C19: the Data messages in a process's mailbox are in the order in which
\* their Message requests were read from the connection (the order of their
\* correlation ids), each request's message is there at most once, and it
\* carries the request's tag.
C19_MailboxInReadOrder ==
    \A ep \in DOMAIN mail :
       \A i, j \in 1..Len(mail[ep]) :
          /\ i < j => mail[ep][i].data < mail[ep][j].data
          /\ mail[ep][i].tag = tasks[mail[ep][i].data].tag

=============================================================================
